---- MODULE Spec2Model ----
(***************************************************************************)
(* Connected-component labelling of 3D binary volumes (ndarray-ndimage,    *)
(* src/measurements.rs) and the statistics derived from a label volume.    *)
(*                                                                         *)
(* Arrays are functions over 0-based index tuples, vectors are functions   *)
(* over 0..n-1, exactly as the source indexes them.                        *)
(***************************************************************************)
EXTENDS Integers, Sequences, FiniteSets, TLC

VARIABLES
    data,           \* the mask handed to `label` (Array3<bool>)
    structure,      \* the structuring element handed to `label`
    order,          \* memory layout of `data`: "C" (standard) or "F" (Fortran)
    max_value,      \* O::max_value() of the label type O
    line_buffer,    \* scratch line, len + 2 cells
    neighbors,      \* scratch copy of a neighbour line, len + 2 cells
    next_region,    \* next provisional label to hand out
    equivalences,   \* the equivalence table (Vec<O>)
    labels,         \* the label volume (raw, then final)
    nb_features,    \* value returned by compact_equivalences
    pos,            \* number of lines the Zip has already visited
    pc,             \* position of the caller
    hist,           \* result of label_histogram
    most,           \* result of most_frequent_label
    pass,           \* which call of `label` this is: "first", "layout", "relabel"
    first,          \* result of the first call, kept by the caller
    largest,        \* result of largest_connected_components
    op,             \* the last operation applied to the equivalence table
    out,            \* binary_erosion / binary_dilation: the array being eroded / dilated
    last_indices,   \* ... the indices modified by the last iteration (Option<Vec>)
    it,             \* ... the iteration counter of the loop over 1..iterations
    iterations,     \* ... the number of iterations asked for
    is_dilate,      \* ... TRUE in binary_dilation, FALSE in binary_erosion
    kernel_i,       \* closure over the lines: next entry of kernel_data (loop of line 149)
    needs_self_labeling, \* ... the local of line 148
    calls           \* ... the calls of label_line_with_neighbor made for the line so far

vars == <<data, structure, order, max_value, line_buffer, neighbors, next_region,
          equivalences, labels, nb_features, pos, pc, hist, most, pass, first,
          largest, op, out, last_indices, it, iterations, is_dilate,
          kernel_i, needs_self_labeling, calls>>

(* the state of binary_erosion / binary_dilation *)
morphVars == <<out, last_indices, it, iterations, is_dilate>>

(* the locals of the closure over the lines *)
fineVars == <<kernel_i, needs_self_labeling, calls>>

(* what a call of label, taken line by line, leaves alone *)
otherVars == <<largest, op, out, last_indices, it, iterations, is_dilate,
               kernel_i, needs_self_labeling, calls>>

----------------------------------------------------------------------------
(* Bounds of the model *)

Width == 2

Height == 2

Depth == 3

(* largest number of true voxels of a generated mask *)
MaxTrue == 4

----------------------------------------------------------------------------
(* Label type: background and foreground, and the u16 instance *)

background == 0

foreground == 1

U16Max == 65535

Vox == (0 .. Width - 1) \X (0 .. Height - 1) \X (0 .. Depth - 1)

KIdx == (0 .. 2) \X (0 .. 2) \X (0 .. 2)

Arr3(rows) == [i \in KIdx |-> rows[i[1] + 1][i[2] + 1][i[3] + 1]]

(* Kernel3d::Star, Ball, Full as written in lib.rs *)
StarKernel ==
    Arr3(<< << <<FALSE, FALSE, FALSE>>, <<FALSE, TRUE, FALSE>>, <<FALSE, FALSE, FALSE>> >>,
            << <<FALSE, TRUE, FALSE>>, <<TRUE, TRUE, TRUE>>, <<FALSE, TRUE, FALSE>> >>,
            << <<FALSE, FALSE, FALSE>>, <<FALSE, TRUE, FALSE>>, <<FALSE, FALSE, FALSE>> >> >>)

BallKernel ==
    Arr3(<< << <<FALSE, TRUE, FALSE>>, <<TRUE, TRUE, TRUE>>, <<FALSE, TRUE, FALSE>> >>,
            << <<TRUE, TRUE, TRUE>>, <<TRUE, TRUE, TRUE>>, <<TRUE, TRUE, TRUE>> >>,
            << <<FALSE, TRUE, FALSE>>, <<TRUE, TRUE, TRUE>>, <<FALSE, TRUE, FALSE>> >> >>)

FullKernel == [i \in KIdx |-> TRUE]

(* The two generic kernels of test_label_different_kernels *)
Odd1Kernel ==
    Arr3(<< << <<TRUE, FALSE, TRUE>>, <<TRUE, FALSE, FALSE>>, <<FALSE, TRUE, TRUE>> >>,
            << <<FALSE, TRUE, FALSE>>, <<FALSE, TRUE, FALSE>>, <<FALSE, TRUE, FALSE>> >>,
            << <<TRUE, TRUE, FALSE>>, <<FALSE, FALSE, TRUE>>, <<TRUE, FALSE, TRUE>> >> >>)

Odd2Kernel ==
    Arr3(<< << <<TRUE, FALSE, TRUE>>, <<FALSE, FALSE, FALSE>>, <<TRUE, FALSE, TRUE>> >>,
            << <<FALSE, FALSE, FALSE>>, <<FALSE, TRUE, FALSE>>, <<FALSE, FALSE, FALSE>> >>,
            << <<TRUE, FALSE, TRUE>>, <<FALSE, FALSE, FALSE>>, <<TRUE, FALSE, TRUE>> >> >>)

(* structure == structure.slice(s![..;-1, ..;-1, ..;-1]) *)
IsSymmetric(k) == \A i \in KIdx : k[i] = k[<<2 - i[1], 2 - i[2], 2 - i[3]>>]

Kernels == {StarKernel, BallKernel, FullKernel, Odd1Kernel, Odd2Kernel}

Orders == {"C", "F"}

TrueVox(d) == {p \in DOMAIN d : d[p]}

Masks == {d \in [Vox -> BOOLEAN] : Cardinality(TrueVox(d)) <= MaxTrue}

----------------------------------------------------------------------------
(* Vectors indexed from 0.  Throughout, CHOOSE r \in {F(x) : x \in {e}} : TRUE *)
(* is F(e) with e computed once: the state of a loop is computed once per  *)
(* turn.                                                                   *)

VecLen(v) == Cardinality(DOMAIN v)

(* variant: nothing is appended *)
PushNothing(v, x) == v

Push(v, x) == [i \in 0 .. VecLen(v) |-> IF i = VecLen(v) THEN x ELSE v[i]]

(* variant: the larger of the two *)
Max2(a, b) == IF a <= b THEN b ELSE a

Min2(a, b) == IF a <= b THEN a ELSE b

----------------------------------------------------------------------------
(* The kernel preprocessor: label, lines 121-139 *)

nb_neighbors == 27 \div (3 * 2)

Lane(k, i) == <<k[<<i \div 3, i % 3, 0>>], k[<<i \div 3, i % 3, 1>>], k[<<i \div 3, i % 3, 2>>]>>

LaneEntry(k, i) == [kernel |-> Lane(k, i), coordinates |-> <<i \div 3, i - (i \div 3) * 3>>]

RECURSIVE KernelDataFrom(_, _)
KernelDataFrom(k, i) ==
    IF i >= nb_neighbors THEN <<>>
    ELSE IF \E j \in 1 .. 3 : Lane(k, i)[j]
         THEN <<LaneEntry(k, i)>> \o KernelDataFrom(k, i + 1)
         ELSE KernelDataFrom(k, i + 1)

kernel_data(k) == KernelDataFrom(k, 0)

use_previous(k) == k[<<1, 1, 0>>]

(* is_valid: Some((x, y)), the neighbour line idx + (coords - 1), as <<x, y>>; *)
(* None as <<>>                                                              *)
is_valid(idx, coords, dims) ==
    LET a0 == idx[1] + (coords[1] - 1)
        a1 == idx[2] + (coords[2] - 1)
    IN  IF a0 >= 0 /\ a0 < dims[1] /\ a1 >= 0 /\ a1 < dims[2]
        THEN <<a0, a1>>
        ELSE <<>>

----------------------------------------------------------------------------
(* The equivalence table *)

(* variant: a single step of the walk, not the walk to its fixed point *)
FindRootOneStep(eq, a) == eq[a]

RECURSIVE FindRoot(_, _)
FindRoot(eq, a) ==
    IF a = eq[a] THEN a
    ELSE CHOOSE r \in {FindRoot(eq, n) : n \in {eq[a]}} : TRUE

(* variant: only the roots are merged, the walk is left as it was *)
FlattenPathRootsOnly(eq, a, lowest) == eq

(* mark_for_merge, lines 288-299: point every step of the walk at lowest *)
RECURSIVE FlattenPath(_, _, _)
FlattenPath(eq, a, lowest) ==
    IF a = lowest THEN eq
    ELSE CHOOSE r \in {FlattenPath(e, n, lowest) :
                           e \in {[eq EXCEPT ![a] = lowest]}, n \in {eq[a]}} : TRUE

mark_for_merge(a, b, eq) ==
    CHOOSE m \in
        {LET lowest_label == Min2(ra, rb)
             eq1 == [eq EXCEPT ![ra] = lowest_label]
             eq2 == [eq1 EXCEPT ![rb] = lowest_label]
             eq3 == FlattenPath(eq2, a, lowest_label)
             eq4 == FlattenPath(eq3, b, lowest_label)
         IN  [label |-> lowest_label, eq |-> eq4] :
            ra \in {FindRoot(eq, a)}, rb \in {FindRoot(eq, b)}} : TRUE

(* variant: a cell that has no label yet takes the root of the neighbour *)
take_label_or_merge_root(current, neighbor, eq) ==
    IF neighbor = background THEN [label |-> current, eq |-> eq]
    ELSE IF current = foreground THEN [label |-> FindRoot(eq, neighbor), eq |-> eq]
    ELSE IF current # neighbor THEN mark_for_merge(neighbor, current, eq)
    ELSE [label |-> current, eq |-> eq]

take_label_or_merge(current, neighbor, eq) ==
    IF neighbor = background THEN [label |-> current, eq |-> eq]
    ELSE IF current = foreground THEN [label |-> neighbor, eq |-> eq]
    ELSE IF current # neighbor THEN mark_for_merge(neighbor, current, eq)
    ELSE [label |-> current, eq |-> eq]

(* variant: a label that is not a root keeps the entry it has *)
RECURSIVE CompactFromNoIndirection(_, _, _, _)
CompactFromNoIndirection(eq, i, dest_label, next) ==
    IF i >= next THEN eq
    ELSE IF eq[i] = i
         THEN CompactFromNoIndirection([eq EXCEPT ![i] = dest_label], i + 1, dest_label + 1, next)
         ELSE CompactFromNoIndirection(eq, i + 1, dest_label, next)

(* compact_equivalences, lines 309-326 *)
RECURSIVE CompactFrom(_, _, _, _)
CompactFrom(eq, i, dest_label, next) ==
    IF i >= next THEN eq
    ELSE IF eq[i] = i
         THEN CHOOSE r \in {CompactFrom(e, i + 1, dest_label + 1, next) :
                                e \in {[eq EXCEPT ![i] = dest_label]}} : TRUE
         ELSE CHOOSE r \in {CompactFrom(e, i + 1, dest_label, next) :
                                e \in {[eq EXCEPT ![i] = eq[eq[i]]]}} : TRUE

VecMax(v) == CHOOSE m \in {v[i] : i \in DOMAIN v} : \A i \in DOMAIN v : v[i] <= m

(* variant: the number of provisional labels is returned, merged or not *)
compact_equivalences_uncompacted(eq, next) ==
    LET no_labelling == (next = 2)
        eq1 == CompactFrom(eq, 2, IF no_labelling THEN 0 ELSE 1, next)
    IN  [eq |-> eq1, nb |-> next - 2]

(* variant: the largest entry is returned even when no label was handed out *)
compact_equivalences_max_always(eq, next) ==
    LET no_labelling == (next = 2)
        eq1 == CompactFrom(eq, 2, IF no_labelling THEN 0 ELSE 1, next)
    IN  [eq |-> eq1, nb |-> VecMax(eq1)]

compact_equivalences(eq, next) ==
    LET no_labelling == (next = 2)
        eq1 == CompactFrom(eq, 2, IF no_labelling THEN 0 ELSE 1, next)
    IN  [eq |-> eq1, nb |-> IF no_labelling THEN 0 ELSE VecMax(eq1)]

----------------------------------------------------------------------------
(* label_line_with_neighbor, lines 213-249.  s is the state of the loop:  *)
(* line, eq, next, previous, panic.                                        *)

RECURSIVE MergeWindow(_, _, _, _, _)
MergeWindow(r, nb, kernel, j, w) ==
    IF w > 3 THEN r
    ELSE IF kernel[w]
         THEN CHOOSE x \in {MergeWindow(m, nb, kernel, j, w + 1) :
                                m \in {take_label_or_merge(r.label, nb[j - 2 + w], r.eq)}} : TRUE
         ELSE MergeWindow(r, nb, kernel, j, w + 1)

LabelCell(s, nb, kernel, use_prev, label_unlabeled, j, maxv) ==
    IF s.line[j] = background
    THEN [s EXCEPT !.previous = s.line[j]]
    ELSE CHOOSE c \in
             {LET alloc == label_unlabeled /\ m2.label = foreground
                  l == IF alloc THEN s.next ELSE m2.label
              IN  [line |-> [s.line EXCEPT ![j] = l],
                   eq |-> IF alloc THEN Push(m2.eq, s.next) ELSE m2.eq,
                   next |-> IF alloc /\ s.next < maxv THEN s.next + 1 ELSE s.next,
                   previous |-> l,
                   panic |-> alloc /\ ~(s.next < maxv)] :
                 m2 \in {IF label_unlabeled /\ use_prev
                         THEN take_label_or_merge(m1.label, s.previous, m1.eq)
                         ELSE m1 :
                            m1 \in {MergeWindow([label |-> s.line[j], eq |-> s.eq],
                                                nb, kernel, j, 1)}}} : TRUE

RECURSIVE LabelCellsFrom(_, _, _, _, _, _, _)
LabelCellsFrom(s, nb, kernel, use_prev, label_unlabeled, j, maxv) ==
    IF j > VecLen(nb) - 2 \/ s.panic THEN s
    ELSE CHOOSE r \in {LabelCellsFrom(c, nb, kernel, use_prev, label_unlabeled, j + 1, maxv) :
                           c \in {LabelCell(s, nb, kernel, use_prev, label_unlabeled, j, maxv)}} :
             TRUE

label_line_with_neighbor(line, nb, eq, kernel, use_prev, label_unlabeled, next, maxv) ==
    CHOOSE r \in
        {LabelCellsFrom(s, nb, kernel, use_prev, label_unlabeled, 1, maxv) :
            s \in {[line |-> line, eq |-> eq, next |-> next, previous |-> line[0],
                    panic |-> FALSE]}} : TRUE

----------------------------------------------------------------------------
(* The body of the closure over the lines: label, lines 143-190 *)

len == Depth

(* Zip::indexed(data.lanes(Axis(2))): the n-th line visited.  A standard  *)
(* layout is walked with axis 1 fastest, a Fortran layout with axis 0     *)
(* fastest.                                                                *)
LineAt(o, n) == IF o = "C" THEN <<n \div Height, n % Height>> ELSE <<n % Width, n \div Width>>

(* variant: the copy stops one cell short of the line *)
FillLineShort(lb, d, idx) ==
    [j \in DOMAIN lb |->
        IF j >= 1 /\ j < len
        THEN (IF ~d[<<idx[1], idx[2], j - 1>>] THEN background ELSE foreground)
        ELSE lb[j]]

FillLine(lb, d, idx) ==
    [j \in DOMAIN lb |->
        IF j >= 1 /\ j <= len
        THEN (IF ~d[<<idx[1], idx[2], j - 1>>] THEN background ELSE foreground)
        ELSE lb[j]]

(* variant: the copy starts at the margin cell, neighbors[0..] *)
CopyNeighborShifted(nb, lab, xy) ==
    [j \in DOMAIN nb |-> IF j >= 0 /\ j <= len - 1 THEN lab[<<xy[1], xy[2], j>>] ELSE nb[j]]

CopyNeighbor(nb, lab, xy) ==
    [j \in DOMAIN nb |-> IF j >= 1 /\ j <= len THEN lab[<<xy[1], xy[2], j - 1>>] ELSE nb[j]]

(* variant: the call for the last entry does not label the unlabelled cells *)
NeighborStepForgetsLabel(t, kd, i, k, idx, lab, maxv) ==
    LET xy == is_valid(idx, kd[i].coordinates, <<Width, Height>>)
    IN  IF xy = <<>> THEN t
        ELSE LET nb == CopyNeighbor(t.nb, lab, xy)
                 label_unlabeled == (i - 1 = Len(kd) - 1)
                 r == label_line_with_neighbor(t.line, nb, t.eq, kd[i].kernel,
                                               use_previous(k), FALSE, t.next, maxv)
             IN  [line |-> r.line, nb |-> nb, eq |-> r.eq, next |-> r.next,
                  needs_self_labeling |-> t.needs_self_labeling /\ ~label_unlabeled,
                  panic |-> r.panic]

(* One entry of kernel_data, lines 149-171 *)
NeighborStep(t, kd, i, k, idx, lab, maxv) ==
    LET xy == is_valid(idx, kd[i].coordinates, <<Width, Height>>)
        label_unlabeled == (i - 1 = Len(kd) - 1)
    IN  IF xy = <<>> THEN t
        ELSE CHOOSE u \in
                 {CHOOSE v \in
                      {[line |-> r.line, nb |-> nb, eq |-> r.eq, next |-> r.next,
                        needs_self_labeling |-> t.needs_self_labeling /\ ~label_unlabeled,
                        panic |-> r.panic] :
                          r \in {label_line_with_neighbor(t.line, nb, t.eq, kernel, use_prev,
                                                          label_unlabeled, t.next, maxv)}} :
                      TRUE :
                     nb \in {CopyNeighbor(t.nb, lab, xy)},
                     kernel \in {kd[i].kernel},
                     use_prev \in {use_previous(k)}} : TRUE

RECURSIVE NeighborLoop(_, _, _, _, _, _, _)
NeighborLoop(t, kd, i, k, idx, lab, maxv) ==
    IF i > Len(kd) \/ t.panic THEN t
    ELSE CHOOSE r \in {NeighborLoop(u, kd, i + 1, k, idx, lab, maxv) :
                           u \in {NeighborStep(t, kd, i, k, idx, lab, maxv)}} : TRUE

(* lines 173-185 *)
SelfLabel(t, k, maxv) ==
    IF t.panic \/ ~t.needs_self_labeling THEN t
    ELSE CHOOSE u \in
             {[t EXCEPT !.line = r.line, !.eq = r.eq, !.next = r.next, !.panic = r.panic] :
                 r \in {label_line_with_neighbor(t.line, t.nb, t.eq, <<FALSE, FALSE, FALSE>>,
                                                 use_previous(k), TRUE, t.next, maxv)}} : TRUE

LabelLine(lb, nb, eq, next, k, d, idx, lab, maxv) ==
    CHOOSE r \in
        {SelfLabel(u, k, maxv) :
            u \in {NeighborLoop(t0, kd, 1, k, idx, lab, maxv) :
                       t0 \in {[line |-> FillLine(lb, d, idx), nb |-> nb, eq |-> eq,
                                next |-> next, needs_self_labeling |-> TRUE,
                                panic |-> FALSE]},
                       kd \in {kernel_data(k)}}} : TRUE

(* lines 188-189 *)
WriteLine(lab, lb, idx) ==
    [p \in DOMAIN lab |-> IF p[1] = idx[1] /\ p[2] = idx[2] THEN lb[p[3] + 1] ELSE lab[p]]

----------------------------------------------------------------------------
(* label_histogram, lines 29-39: one increment per voxel *)

(* variant: background voxels are not counted *)
RECURSIVE HistFoldNoBackground(_, _, _)
HistFoldNoBackground(count, lab, todo) ==
    IF todo = {} THEN count
    ELSE LET p == CHOOSE q \in todo : TRUE
         IN  IF lab[p] = background
             THEN HistFoldNoBackground(count, lab, todo \ {p})
             ELSE HistFoldNoBackground([count EXCEPT ![lab[p]] = @ + 1], lab, todo \ {p})

RECURSIVE HistFold(_, _, _)
HistFold(count, lab, todo) ==
    IF todo = {} THEN count
    ELSE LET p == CHOOSE q \in todo : TRUE
         IN  HistFold([count EXCEPT ![lab[p]] = @ + 1], lab, todo \ {p})

label_histogram_no_background(lab, nb) ==
    HistFoldNoBackground([i \in 0 .. nb |-> 0], lab, DOMAIN lab)

label_histogram(lab, nb) == HistFold([i \in 0 .. nb |-> 0], lab, DOMAIN lab)

(* most_frequent_label, lines 55-58.  acc.max((nb, i)) compares the pairs *)
(* (count, index) lexicographically and keeps the later one when equal.    *)
PairLeq(a, b) == a[1] < b[1] \/ (a[1] = b[1] /\ a[2] <= b[2])

(* variant: strict comparison of the counts, the first maximum is kept *)
PairMaxFirst(acc, e) == IF e[1] > acc[1] THEN e ELSE acc

PairMax(acc, e) == IF PairLeq(acc, e) THEN e ELSE acc

RECURSIVE FoldMax(_, _, _)
FoldMax(acc, h, i) ==
    IF i > VecLen(h) - 2 THEN acc
    ELSE FoldMax(PairMax(acc, <<h[i + 1], i>>), h, i + 1)

(* variant: the fold runs over the whole histogram, bucket 0 included *)
RECURSIVE FoldMaxAll(_, _, _)
FoldMaxAll(acc, h, i) ==
    IF i > VecLen(h) - 1 THEN acc
    ELSE FoldMaxAll(PairMax(acc, <<h[i], i>>), h, i + 1)

most_frequent_label_all(lab, nb) ==
    LET h == label_histogram(lab, nb)
        m == FoldMaxAll(<<0, 0>>, h, 0)
    IN  IF m[1] > 0 THEN <<m[2], m[1]>> ELSE <<>>

(* Some((label, count)) as <<label, count>>, None as <<>> *)
most_frequent_label(lab, nb) ==
    LET h == label_histogram(lab, nb)
        m == FoldMax(<<0, 0>>, h, 0)
    IN  IF m[1] > 0 THEN <<m[2] + 1, m[1]>> ELSE <<>>

----------------------------------------------------------------------------
(* State machine of one caller: label, then the statistics *)

NoResult == <<>>

Init ==
    /\ data \in Masks
    /\ structure \in Kernels
    /\ order \in Orders
    /\ max_value = U16Max
    /\ line_buffer = <<>>
    /\ neighbors = <<>>
    /\ next_region = 0
    /\ equivalences = <<>>
    /\ labels = <<>>
    /\ nb_features = 0
    /\ pos = 0
    /\ pc = "validate"
    /\ hist = NoResult
    /\ most = NoResult
    /\ pass = "first"
    /\ first = NoResult
    /\ largest = NoResult
    /\ kernel_i = 0
    /\ needs_self_labeling = FALSE
    /\ calls = <<>>
    /\ op = NoResult
    /\ out = NoResult
    /\ last_indices = NoResult
    /\ it = 0
    /\ iterations = 0
    /\ is_dilate = FALSE

(* variant: the buffers, the table and the label volume are created before *)
(* the two assertions                                                      *)
BeginAllocatesFirst ==
    /\ UNCHANGED otherVars
    /\ pc = "validate"
    /\ line_buffer' = [j \in 0 .. len + 1 |-> background]
    /\ neighbors' = [j \in 0 .. len + 1 |-> background]
    /\ next_region' = foreground + 1
    /\ equivalences' = [x \in 0 .. foreground |-> x]
    /\ labels' = [p \in Vox |-> background]
    /\ pc' = IF DOMAIN structure # KIdx THEN "panic_shape"
             ELSE IF ~IsSymmetric(structure) THEN "panic_symmetry"
             ELSE "scan"
    /\ UNCHANGED <<data, structure, order, max_value, nb_features, pos, hist, most, pass, first>>

(* label, lines 106-142: the two assertions, then the buffers, the table *)
(* and the label volume                                                   *)
Begin ==
    /\ UNCHANGED otherVars
    /\ pc = "validate"
    /\ IF DOMAIN structure # KIdx
       THEN /\ pc' = "panic_shape"
            /\ UNCHANGED <<line_buffer, neighbors, next_region, equivalences, labels>>
       ELSE IF ~IsSymmetric(structure)
       THEN /\ pc' = "panic_symmetry"
            /\ UNCHANGED <<line_buffer, neighbors, next_region, equivalences, labels>>
       ELSE /\ line_buffer' = [j \in 0 .. len + 1 |-> background]
            /\ neighbors' = [j \in 0 .. len + 1 |-> background]
            /\ next_region' = foreground + 1
            /\ equivalences' = [x \in 0 .. foreground |-> x]
            /\ labels' = [p \in Vox |-> background]
            /\ pc' = "scan"
    /\ UNCHANGED <<data, structure, order, max_value, nb_features, pos, hist, most, pass, first>>

(* variant: the Zip hands out the same line again and again *)
ScanLineAgain ==
    /\ UNCHANGED otherVars
    /\ pc = "scan"
    /\ pos < Width * Height
    /\ \E t \in {LabelLine(line_buffer, neighbors, equivalences, next_region, structure,
                           data, LineAt(order, pos), labels, max_value)} :
          /\ line_buffer' = t.line
          /\ neighbors' = t.nb
          /\ equivalences' = t.eq
          /\ next_region' = t.next
          /\ IF t.panic
             THEN /\ pc' = "panic_overflow"
                  /\ UNCHANGED <<labels, pos>>
             ELSE /\ labels' = WriteLine(labels, t.line, LineAt(order, pos))
                  /\ pos' = pos
                  /\ pc' = "scan"
    /\ UNCHANGED <<data, structure, order, max_value, nb_features, hist, most, pass, first>>

(* label, lines 143-190: the closure applied to the next line of the Zip *)
ScanLine ==
    /\ UNCHANGED otherVars
    /\ pc = "scan"
    /\ pos < Width * Height
    /\ \E t \in {LabelLine(line_buffer, neighbors, equivalences, next_region, structure,
                           data, LineAt(order, pos), labels, max_value)} :
          /\ line_buffer' = t.line
          /\ neighbors' = t.nb
          /\ equivalences' = t.eq
          /\ next_region' = t.next
          /\ IF t.panic
             THEN /\ pc' = "panic_overflow"
                  /\ UNCHANGED <<labels, pos>>
             ELSE /\ labels' = WriteLine(labels, t.line, LineAt(order, pos))
                  /\ pos' = pos + 1
                  /\ pc' = "scan"
    /\ UNCHANGED <<data, structure, order, max_value, nb_features, hist, most, pass, first>>

(* label, line 193 *)
Compact ==
    /\ UNCHANGED otherVars
    /\ pc = "scan"
    /\ pos = Width * Height
    /\ LET c == compact_equivalences(equivalences, next_region)
       IN  /\ equivalences' = c.eq
           /\ nb_features' = c.nb
    /\ pc' = "remap"
    /\ UNCHANGED <<data, structure, order, max_value, line_buffer, neighbors, next_region,
                   labels, pos, hist, most, pass, first>>

(* label, lines 194-196 *)
Remap ==
    /\ UNCHANGED otherVars
    /\ pc = "remap"
    /\ labels' = [p \in Vox |-> equivalences[labels[p]]]
    /\ pc' = "done"
    /\ UNCHANGED <<data, structure, order, max_value, line_buffer, neighbors, next_region,
                   equivalences, nb_features, pos, hist, most, pass, first>>

(* the caller passes the result of label to label_histogram *)
LabelHistogram ==
    /\ UNCHANGED otherVars
    /\ pc = "done"
    /\ pass = "first"
    /\ hist' = label_histogram(labels, nb_features)
    /\ pc' = "histogram"
    /\ UNCHANGED <<data, structure, order, max_value, line_buffer, neighbors, next_region,
                   equivalences, labels, nb_features, pos, most, pass, first>>

(* ... and to most_frequent_label *)
MostFrequentLabel ==
    /\ UNCHANGED otherVars
    /\ pc = "histogram"
    /\ most' = most_frequent_label(labels, nb_features)
    /\ pc' = "most_frequent"
    /\ UNCHANGED <<data, structure, order, max_value, line_buffer, neighbors, next_region,
                   equivalences, labels, nb_features, pos, hist, pass, first>>

Next == Begin \/ ScanLine \/ Compact \/ Remap \/ LabelHistogram \/ MostFrequentLabel

Spec == Init /\ [][Next]_vars

(* The caller labels the same logical volume again, stored in the other    *)
(* memory layout.                                                          *)
LabelOtherLayout ==
    /\ UNCHANGED otherVars
    /\ pc = "done"
    /\ pass = "first"
    /\ first' = [labels |-> labels, nb_features |-> nb_features]
    /\ order' = IF order = "C" THEN "F" ELSE "C"
    /\ pass' = "layout"
    /\ pc' = "validate"
    /\ pos' = 0
    /\ UNCHANGED <<data, structure, max_value, line_buffer, neighbors, next_region,
                   equivalences, labels, nb_features, hist, most>>

(* The caller labels the mask labels > 0.  The label volume is built by    *)
(* Array3::from_elem(data.dim(), ..) (line 142), so it and the mask mapped *)
(* from it are in standard layout.                                         *)
Relabel ==
    /\ UNCHANGED otherVars
    /\ pc = "done"
    /\ pass = "first"
    /\ first' = [labels |-> labels, nb_features |-> nb_features]
    /\ data' = [p \in Vox |-> labels[p] > 0]
    /\ order' = "C"
    /\ pass' = "relabel"
    /\ pc' = "validate"
    /\ pos' = 0
    /\ UNCHANGED <<structure, max_value, line_buffer, neighbors, next_region,
                   equivalences, labels, nb_features, hist, most>>

LabelCall == Begin \/ ScanLine \/ Compact \/ Remap

NextLayout == LabelCall \/ LabelOtherLayout

(* the first call sees the standard layout, the second the Fortran layout *)
InitLayout == Init /\ order = "C"

SpecLayout == InitLayout /\ [][NextLayout]_vars

NextRelabel == LabelCall \/ Relabel

SpecRelabel == Init /\ [][NextRelabel]_vars

(* largest_connected_components, lines 75-77, after the call of label on   *)
(* line 75: None is [some |-> FALSE], Some(mask) is [some |-> TRUE, ..]    *)
LargestConnectedComponents ==
    /\ pc = "done"
    /\ pass = "first"
    /\ LET m == most_frequent_label(labels, nb_features)
       IN  largest' = IF m = <<>>
                      THEN [some |-> FALSE, mask |-> [p \in Vox |-> FALSE]]
                      ELSE [some |-> TRUE, mask |-> [p \in Vox |-> labels[p] = m[1]]]
    /\ pc' = "largest"
    /\ UNCHANGED <<data, structure, order, max_value, line_buffer, neighbors, next_region,
                   equivalences, labels, nb_features, pos, hist, most, pass, first>>
    /\ UNCHANGED <<op, out, last_indices, it, iterations, is_dilate>>
    /\ UNCHANGED fineVars

NextLargest == LabelCall \/ LargestConnectedComponents

SpecLargest == Init /\ [][NextLargest]_vars

----------------------------------------------------------------------------
(* Structuring elements that label must reject, lines 106-107 *)

(* 3x3x3, but not its own point reflection: Star plus one corner *)
CornerKernel == [i \in KIdx |-> StarKernel[i] \/ i = <<0, 0, 0>>]

FlatIdx == (0 .. 2) \X (0 .. 2) \X (0 .. 0)

(* 3x3x1, equal to its point reflection *)
FlatKernel == [i \in FlatIdx |-> TRUE]

(* 3x3x1, not equal to its point reflection *)
FlatCornerKernel == [i \in FlatIdx |-> i[1] = 1 \/ i = <<0, 0, 0>>]

ValidateKernels == {StarKernel, CornerKernel, FlatKernel, FlatCornerKernel}

InitValidate ==
    /\ data \in Masks
    /\ structure \in ValidateKernels
    /\ order \in Orders
    /\ max_value = U16Max
    /\ line_buffer = <<>>
    /\ neighbors = <<>>
    /\ next_region = 0
    /\ equivalences = <<>>
    /\ labels = <<>>
    /\ nb_features = 0
    /\ pos = 0
    /\ pc = "validate"
    /\ hist = NoResult
    /\ most = NoResult
    /\ pass = "first"
    /\ first = NoResult
    /\ largest = NoResult
    /\ kernel_i = 0
    /\ needs_self_labeling = FALSE
    /\ calls = <<>>
    /\ op = NoResult
    /\ out = NoResult
    /\ last_indices = NoResult
    /\ it = 0
    /\ iterations = 0
    /\ is_dilate = FALSE

SpecValidate == InitValidate /\ [][LabelCall]_vars

----------------------------------------------------------------------------
(* Runs of label with a small label type, lines 98-100 and 238-243 *)

(* maximum value of the small label type *)
SmallMax == 4

(* data.len() *)
VoxCount == Width * Height * Depth

(* 3x3x3 and symmetric, only the centre is true: no voxel has a neighbour *)
CenterKernel == [i \in KIdx |-> i = <<1, 1, 1>>]

OverflowKernels == {StarKernel, CenterKernel}

OverflowMasks == Masks \cup {[p \in Vox |-> TRUE]}

(* a tiny label type, and one whose maximum is data.len() + 1 *)
MaxValues == {SmallMax, VoxCount + 1}

InitOverflow ==
    /\ data \in OverflowMasks
    /\ structure \in OverflowKernels
    /\ order \in Orders
    /\ max_value \in MaxValues
    /\ line_buffer = <<>>
    /\ neighbors = <<>>
    /\ next_region = 0
    /\ equivalences = <<>>
    /\ labels = <<>>
    /\ nb_features = 0
    /\ pos = 0
    /\ pc = "validate"
    /\ hist = NoResult
    /\ most = NoResult
    /\ pass = "first"
    /\ first = NoResult
    /\ largest = NoResult
    /\ kernel_i = 0
    /\ needs_self_labeling = FALSE
    /\ calls = <<>>
    /\ op = NoResult
    /\ out = NoResult
    /\ last_indices = NoResult
    /\ it = 0
    /\ iterations = 0
    /\ is_dilate = FALSE

SpecOverflow == InitOverflow /\ [][LabelCall]_vars

(* label is sequential code with no blocking call: a call that has a next *)
(* step takes it                                                          *)
SpecTerminates == InitOverflow /\ [][LabelCall]_vars /\ WF_vars(LabelCall)

----------------------------------------------------------------------------
(* The equivalence table on its own: any sequence of allocations (lines    *)
(* 239-242) and merges (mark_for_merge) after its creation (lines 113-115) *)

(* largest number of labels handed out *)
MaxLabels == 5

InitTable ==
    /\ data = [p \in Vox |-> FALSE]
    /\ structure = StarKernel
    /\ order = "C"
    /\ max_value = U16Max
    /\ line_buffer = <<>>
    /\ neighbors = <<>>
    /\ next_region = foreground + 1
    /\ equivalences = [x \in 0 .. foreground |-> x]
    /\ labels = <<>>
    /\ nb_features = 0
    /\ pos = 0
    /\ pc = "table"
    /\ hist = NoResult
    /\ most = NoResult
    /\ pass = "first"
    /\ first = NoResult
    /\ largest = NoResult
    /\ kernel_i = 0
    /\ needs_self_labeling = FALSE
    /\ calls = <<>>
    /\ op = NoResult
    /\ out = NoResult
    /\ last_indices = NoResult
    /\ it = 0
    /\ iterations = 0
    /\ is_dilate = FALSE

(* label_line_with_neighbor, lines 239-242 *)
Allocate ==
    /\ pc = "table"
    /\ next_region < foreground + 1 + MaxLabels
    /\ equivalences' = Push(equivalences, next_region)
    /\ IF next_region < max_value
       THEN /\ next_region' = next_region + 1
            /\ pc' = "table"
       ELSE /\ pc' = "panic_overflow"
            /\ UNCHANGED next_region
    /\ op' = [kind |-> "allocate", a |-> next_region, b |-> next_region,
              ret |-> next_region, table |-> equivalences]
    /\ UNCHANGED <<data, structure, order, max_value, line_buffer, neighbors, labels,
                   nb_features, pos, hist, most, pass, first>>
    /\ UNCHANGED <<largest, out, last_indices, it, iterations, is_dilate>>
    /\ UNCHANGED fineVars

(* mark_for_merge as take_label_or_merge calls it (line 261): two different *)
(* labels that have been handed out                                        *)
Union ==
    /\ pc = "table"
    /\ \E a, b \in foreground + 1 .. next_region - 1 :
           /\ a # b
           /\ LET r == mark_for_merge(a, b, equivalences)
              IN  /\ equivalences' = r.eq
                  /\ op' = [kind |-> "union", a |-> a, b |-> b, ret |-> r.label,
                            table |-> equivalences]
    /\ UNCHANGED <<data, structure, order, max_value, line_buffer, neighbors, next_region,
                   labels, nb_features, pos, pc, hist, most, pass, first>>
    /\ UNCHANGED <<largest, out, last_indices, it, iterations, is_dilate>>
    /\ UNCHANGED fineVars

NextTable == Allocate \/ Union

SpecTable == InitTable /\ [][NextTable]_vars

(* take_label_or_merge as label_line_with_neighbor calls it (lines 230 and *)
(* 235): the cell is not background (line 227), so it is foreground or a   *)
(* label handed out; the neighbour is background or a label handed out     *)
Merge ==
    /\ pc = "table"
    /\ \E current \in foreground .. next_region - 1 :
       \E neighbor \in {background} \cup (foreground + 1 .. next_region - 1) :
       \E r \in {take_label_or_merge(current, neighbor, equivalences)} :
           /\ equivalences' = r.eq
           /\ op' = [kind |-> "merge", a |-> current, b |-> neighbor, ret |-> r.label,
                     table |-> equivalences]
    /\ UNCHANGED <<data, structure, order, max_value, line_buffer, neighbors, next_region,
                   labels, nb_features, pos, pc, hist, most, pass, first>>
    /\ UNCHANGED <<largest, out, last_indices, it, iterations, is_dilate>>
    /\ UNCHANGED fineVars

(* compact_equivalences applied to the table (label, line 193) *)
CompactTable ==
    /\ pc = "table"
    /\ \E c \in {compact_equivalences(equivalences, next_region)} :
           /\ equivalences' = c.eq
           /\ nb_features' = c.nb
           /\ op' = [kind |-> "compact", a |-> next_region, b |-> next_region,
                     ret |-> c.nb, table |-> equivalences]
    /\ pc' = "compacted"
    /\ UNCHANGED <<data, structure, order, max_value, line_buffer, neighbors, next_region,
                   labels, pos, hist, most, pass, first>>
    /\ UNCHANGED <<largest, out, last_indices, it, iterations, is_dilate>>
    /\ UNCHANGED fineVars

NextCompact == Allocate \/ Union \/ CompactTable

SpecCompact == InitTable /\ [][NextCompact]_vars

NextMerge == Allocate \/ Merge

SpecMerge == InitTable /\ [][NextMerge]_vars

----------------------------------------------------------------------------
(* The scan in two separate passes per line: every entry of kernel_data    *)
(* merges only (label_unlabeled = false), then one sweep with the kernel   *)
(* [false, false, false] merges along the line and labels what is left.    *)
(* The caller labels the volume with the scan of lines 143-190, then with  *)
(* this one.                                                               *)

NeighborStepMergeOnly(t, kd, i, k, idx, lab, maxv) ==
    LET xy == is_valid(idx, kd[i].coordinates, <<Width, Height>>)
    IN  IF xy = <<>> THEN t
        ELSE LET nb == CopyNeighbor(t.nb, lab, xy)
                 r == label_line_with_neighbor(t.line, nb, t.eq, kd[i].kernel,
                                               use_previous(k), FALSE, t.next, maxv)
             IN  [line |-> r.line, nb |-> nb, eq |-> r.eq, next |-> r.next,
                  needs_self_labeling |-> TRUE, panic |-> r.panic]

RECURSIVE NeighborLoopMergeOnly(_, _, _, _, _, _, _)
NeighborLoopMergeOnly(t, kd, i, k, idx, lab, maxv) ==
    IF i > Len(kd) \/ t.panic THEN t
    ELSE NeighborLoopMergeOnly(NeighborStepMergeOnly(t, kd, i, k, idx, lab, maxv),
                               kd, i + 1, k, idx, lab, maxv)

(* the second pass: one sweep over the line, the neighbours all background *)
SelfLabelSweep(t, k, maxv) ==
    IF t.panic THEN t
    ELSE LET r == label_line_with_neighbor(t.line, [j \in 0 .. len + 1 |-> background], t.eq,
                                           <<FALSE, FALSE, FALSE>>, use_previous(k), TRUE,
                                           t.next, maxv)
         IN  [t EXCEPT !.line = r.line, !.eq = r.eq, !.next = r.next, !.panic = r.panic]

LabelLineTwoPass(lb, nb, eq, next, k, d, idx, lab, maxv) ==
    LET t0 == [line |-> FillLine(lb, d, idx), nb |-> nb, eq |-> eq, next |-> next,
               needs_self_labeling |-> TRUE, panic |-> FALSE]
    IN  SelfLabelSweep(NeighborLoopMergeOnly(t0, kernel_data(k), 1, k, idx, lab, maxv), k, maxv)

ScanLineFused ==
    /\ pass = "first"
    /\ ScanLine

ScanLineTwoPass ==
    /\ UNCHANGED otherVars
    /\ pass = "twopass"
    /\ pc = "scan"
    /\ pos < Width * Height
    /\ \E t \in {LabelLineTwoPass(line_buffer, neighbors, equivalences, next_region, structure,
                                  data, LineAt(order, pos), labels, max_value)} :
          /\ line_buffer' = t.line
          /\ neighbors' = t.nb
          /\ equivalences' = t.eq
          /\ next_region' = t.next
          /\ IF t.panic
             THEN /\ pc' = "panic_overflow"
                  /\ UNCHANGED <<labels, pos>>
             ELSE /\ labels' = WriteLine(labels, t.line, LineAt(order, pos))
                  /\ pos' = pos + 1
                  /\ pc' = "scan"
    /\ UNCHANGED <<data, structure, order, max_value, nb_features, hist, most, pass, first>>

(* the caller keeps the result and labels the same volume again *)
LabelTwoPass ==
    /\ UNCHANGED otherVars
    /\ pc = "done"
    /\ pass = "first"
    /\ first' = [labels |-> labels, nb_features |-> nb_features]
    /\ pass' = "twopass"
    /\ pc' = "validate"
    /\ pos' = 0
    /\ UNCHANGED <<data, structure, order, max_value, line_buffer, neighbors, next_region,
                   equivalences, labels, nb_features, hist, most>>

NextTwoPass ==
    Begin \/ ScanLineFused \/ ScanLineTwoPass \/ Compact \/ Remap \/ LabelTwoPass

SpecTwoPass == Init /\ [][NextTwoPass]_vars

----------------------------------------------------------------------------
(* The closure over the lines taken call by call: label, lines 143-190.    *)
(* calls records, for the line being labelled, the arguments kernel and    *)
(* label_unlabeled of every call of label_line_with_neighbor.              *)

FineKernels == Kernels \cup {CenterKernel}

FineMaxValues == {SmallMax, U16Max}

InitFine ==
    /\ data \in Masks
    /\ structure \in FineKernels
    /\ order \in Orders
    /\ max_value \in FineMaxValues
    /\ line_buffer = <<>>
    /\ neighbors = <<>>
    /\ next_region = 0
    /\ equivalences = <<>>
    /\ labels = <<>>
    /\ nb_features = 0
    /\ pos = 0
    /\ pc = "validate"
    /\ hist = NoResult
    /\ most = NoResult
    /\ pass = "first"
    /\ first = NoResult
    /\ largest = NoResult
    /\ kernel_i = 0
    /\ needs_self_labeling = FALSE
    /\ calls = <<>>
    /\ op = NoResult
    /\ out = NoResult
    /\ last_indices = NoResult
    /\ it = 0
    /\ iterations = 0
    /\ is_dilate = FALSE

(* lines 144-148 *)
FillLineStep ==
    /\ pc = "scan"
    /\ pos < Width * Height
    /\ line_buffer' = FillLine(line_buffer, data, LineAt(order, pos))
    /\ needs_self_labeling' = TRUE
    /\ kernel_i' = 1
    /\ calls' = <<>>
    /\ pc' = "neighbors"
    /\ UNCHANGED <<data, structure, order, max_value, neighbors, next_region, equivalences,
                   labels, nb_features, pos, hist, most, pass, first>>
    /\ UNCHANGED <<largest, op, out, last_indices, it, iterations, is_dilate>>

(* lines 149-171: one turn of the loop over kernel_data *)
NeighborCall ==
    /\ pc = "neighbors"
    /\ kernel_i <= Len(kernel_data(structure))
    /\ kernel_i' = kernel_i + 1
    /\ \E xy \in {is_valid(LineAt(order, pos), kernel_data(structure)[kernel_i].coordinates,
                            <<Width, Height>>)} :
          IF xy = <<>>
          THEN UNCHANGED <<line_buffer, neighbors, equivalences, next_region,
                           needs_self_labeling, calls, pc>>
          ELSE \E label_unlabeled \in {kernel_i - 1 = Len(kernel_data(structure)) - 1} :
               \E nb \in {CopyNeighbor(neighbors, labels, xy)} :
               \E r \in {label_line_with_neighbor(line_buffer, nb, equivalences,
                                                   kernel_data(structure)[kernel_i].kernel,
                                                   use_previous(structure), label_unlabeled,
                                                   next_region, max_value)} :
                   /\ neighbors' = nb
                   /\ line_buffer' = r.line
                   /\ equivalences' = r.eq
                   /\ next_region' = r.next
                   /\ calls' = Append(calls, [kernel |-> kernel_data(structure)[kernel_i].kernel,
                                              label_unlabeled |-> label_unlabeled])
                   /\ needs_self_labeling' = (needs_self_labeling /\ ~label_unlabeled)
                   /\ pc' = IF r.panic THEN "panic_overflow" ELSE "neighbors"
    /\ UNCHANGED <<data, structure, order, max_value, labels, nb_features, pos, hist, most,
                   pass, first>>
    /\ UNCHANGED <<largest, op, out, last_indices, it, iterations, is_dilate>>

(* variant: the call of lines 176-184 is never made *)
SelfLabelCallSkipped ==
    /\ pc = "neighbors"
    /\ kernel_i > Len(kernel_data(structure))
    /\ pc' = "write"
    /\ UNCHANGED <<data, structure, order, max_value, line_buffer, neighbors, next_region,
                   equivalences, labels, nb_features, pos, hist, most, pass, first>>
    /\ UNCHANGED <<largest, op, out, last_indices, it, iterations, is_dilate>>
    /\ UNCHANGED fineVars

(* lines 173-185, after the loop *)
SelfLabelCall ==
    /\ pc = "neighbors"
    /\ kernel_i > Len(kernel_data(structure))
    /\ IF needs_self_labeling
       THEN \E r \in {label_line_with_neighbor(line_buffer, neighbors, equivalences,
                                                <<FALSE, FALSE, FALSE>>,
                                                use_previous(structure), TRUE,
                                                next_region, max_value)} :
                /\ line_buffer' = r.line
                /\ equivalences' = r.eq
                /\ next_region' = r.next
                /\ calls' = Append(calls, [kernel |-> <<FALSE, FALSE, FALSE>>,
                                           label_unlabeled |-> TRUE])
                /\ pc' = IF r.panic THEN "panic_overflow" ELSE "write"
       ELSE /\ pc' = "write"
            /\ UNCHANGED <<line_buffer, equivalences, next_region, calls>>
    /\ UNCHANGED <<data, structure, order, max_value, neighbors, labels, nb_features, pos,
                   hist, most, pass, first, kernel_i, needs_self_labeling>>
    /\ UNCHANGED <<largest, op, out, last_indices, it, iterations, is_dilate>>

(* lines 188-189 *)
WriteLineStep ==
    /\ pc = "write"
    /\ labels' = WriteLine(labels, line_buffer, LineAt(order, pos))
    /\ pos' = pos + 1
    /\ pc' = "scan"
    /\ UNCHANGED <<data, structure, order, max_value, line_buffer, neighbors, next_region,
                   equivalences, nb_features, hist, most, pass, first>>
    /\ UNCHANGED <<largest, op, out, last_indices, it, iterations, is_dilate>>
    /\ UNCHANGED fineVars

NextFine ==
    Begin \/ FillLineStep \/ NeighborCall \/ SelfLabelCall \/ WriteLineStep \/ Compact \/ Remap

SpecFine == InitFine /\ [][NextFine]_vars

----------------------------------------------------------------------------
(* Binary morphology: src/morphology/mod.rs and src/morphology/offsets.rs. *)
(* A mask is a function over MVox; its memory-order slice is a function    *)
(* over 0 .. mask_len - 1.  Axes 0, 1, 2 of the source are the tuple       *)
(* positions 1, 2, 3.                                                      *)

(* length of each axis of the mask *)
MorphDim == 3

(* largest number of voxels that differ from the rest of a generated mask *)
MorphSeeds == 1

(* largest value of the iterations argument *)
MaxIterations == 3

MVox == (0 .. MorphDim - 1) \X (0 .. MorphDim - 1) \X (0 .. MorphDim - 1)

mask_shape == <<MorphDim, MorphDim, MorphDim>>

mask_len == MorphDim * MorphDim * MorphDim

(* mask.strides() of a standard-layout and of a Fortran-layout mask *)
mask_strides(o) ==
    IF o = "C" THEN <<MorphDim * MorphDim, MorphDim, 1>>
    ELSE <<1, MorphDim, MorphDim * MorphDim>>

MemIndex(o, p) ==
    p[1] * mask_strides(o)[1] + p[2] * mask_strides(o)[2] + p[3] * mask_strides(o)[3]

CoordOf(o, i) == CHOOSE p \in MVox : MemIndex(o, p) = i

as_slice_memory_order(o, d) == [i \in 0 .. mask_len - 1 |-> d[CoordOf(o, i)]]

(* the array whose memory-order slice is m *)
FromMemory(o, m) == [p \in MVox |-> m[MemIndex(o, p)]]

(* The asymmetric kernels of test_asymmetric_kernel *)
Star010Kernel == [i \in KIdx |-> StarKernel[i] \/ i = <<0, 1, 0>>]

Star102Kernel == [i \in KIdx |-> StarKernel[i] \/ i = <<1, 0, 2>>]

MorphKernels == {StarKernel, Star010Kernel, Star102Kernel}

(* the sets of at most n voxels *)
RECURSIVE SeedSets(_)
SeedSets(n) ==
    IF n = 0 THEN {{}}
    ELSE SeedSets(n - 1) \cup {S \cup {p} : S \in SeedSets(n - 1), p \in MVox}

(* masks that are false, or true, except on at most MorphSeeds voxels *)
MorphMasks == {[p \in MVox |-> (p \in S) = v] : S \in SeedSets(MorphSeeds), v \in BOOLEAN}

kernel_shape(k) ==
    <<Cardinality({i[1] : i \in DOMAIN k}), Cardinality({i[2] : i \in DOMAIN k}),
      Cardinality({i[3] : i \in DOMAIN k})>>

radii(k) ==
    LET ks == kernel_shape(k)
    IN  <<(ks[1] - 1) \div 2, (ks[2] - 1) \div 2, (ks[3] - 1) \div 2>>

(* kernel.indexed_iter(): the n-th index in logical order *)
KernelIndex(k, n) ==
    LET ks == kernel_shape(k)
    IN  <<n \div (ks[2] * ks[3]), (n \div ks[3]) % ks[2], n % ks[3]>>

(* build_indices, offsets.rs lines 168-192 *)
RECURSIVE BuildIndicesFrom(_, _, _)
BuildIndicesFrom(k, isd, n) ==
    IF n >= Cardinality(DOMAIN k) THEN <<>>
    ELSE LET idx == KernelIndex(k, n)
             centered == <<idx[1] - radii(k)[1], idx[2] - radii(k)[2], idx[3] - radii(k)[3]>>
             rest == BuildIndicesFrom(k, isd, n + 1)
         IN  IF ~k[idx] \/ centered = <<0, 0, 0>> THEN rest
             ELSE IF isd
                  THEN << <<(-1) * centered[1], (-1) * centered[2], (-1) * centered[3]>> >> \o rest
                  ELSE <<centered>> \o rest

build_indices(k, isd) == BuildIndicesFrom(k, isd, 0)

(* build_offsets, offsets.rs lines 128-135 *)
build_pos(d, k) ==
    LET radius == radii(k)[d]
    IN  [j \in 1 .. radius |-> j - 1] \o <<mask_shape[d] \div 2>>
            \o [j \in 1 .. radius |-> mask_shape[d] - radius + j - 1]

(* build_offsets, lines 144-153: the offset of the kernel index idx2 at   *)
(* the position zyx                                                        *)
OffsetOf(o, zyx, idx2) ==
    LET idx == <<zyx[1] + idx2[1], zyx[2] + idx2[2], zyx[3] + idx2[3]>>
    IN  IF \E a \in 1 .. 3 : ~(idx[a] >= 0 /\ idx[a] < mask_shape[a])
        THEN mask_len
        ELSE idx2[1] * mask_strides(o)[1] + idx2[2] * mask_strides(o)[2]
                 + idx2[3] * mask_strides(o)[3]

(* build_offsets, lines 161-163: the sorted chunk of one position *)
Chunk(o, indices, zyx) ==
    SortSeq([j \in 1 .. Len(indices) |-> OffsetOf(o, zyx, indices[j])], LAMBDA a, b : a < b)

(* build_offsets, lines 141-156: the chunks of the positions from the q-th *)
(* on, z outermost and x innermost                                         *)
RECURSIVE ChunksFrom(_, _, _, _, _, _)
ChunksFrom(o, indices, z_pos, y_pos, x_pos, q) ==
    IF q >= Len(z_pos) * Len(y_pos) * Len(x_pos) THEN <<>>
    ELSE LET zyx == <<z_pos[q \div (Len(y_pos) * Len(x_pos)) + 1],
                      y_pos[((q \div Len(x_pos)) % Len(y_pos)) + 1],
                      x_pos[(q % Len(x_pos)) + 1]>>
         IN  Chunk(o, indices, zyx) \o ChunksFrom(o, indices, z_pos, y_pos, x_pos, q + 1)

(* build_offsets: the vector of all offsets (element e of the source is    *)
(* element e + 1 of the sequence) and the length of a chunk                *)
build_offsets(o, k, isd) ==
    LET indices == build_indices(k, isd)
    IN  [offsets |-> ChunksFrom(o, indices, build_pos(1, k), build_pos(2, k),
                                build_pos(3, k), 0),
         n |-> Len(indices)]

(* Offsets::new, offsets.rs lines 20-60 *)
Offsets_new(o, k, isd) ==
    LET built == build_offsets(o, k, isd)
        n == built.n
        ks == kernel_shape(k)
        rd == radii(k)
        dim_m1 == [a \in 1 .. 3 |-> mask_shape[a] - 1]
        s3 == n
        s2 == s3 * ks[2]
        s1 == s2 * ks[1]
        strides == <<s1, s2, s3>>
    IN  [mask_strides |-> mask_strides(o),
         dim_m1 |-> <<dim_m1[1], dim_m1[2], dim_m1[3]>>,
         offsets |-> built.offsets,
         axes |-> IF mask_strides(o)[1] > mask_strides(o)[3] THEN <<3, 2, 1>> ELSE <<1, 2, 3>>,
         strides |-> strides,
         backstrides |-> <<(ks[1] - 1) * strides[1], (ks[2] - 1) * strides[2],
                           (ks[3] - 1) * strides[3]>>,
         bounds |-> <<[start |-> rd[1], end |-> dim_m1[1] - rd[1]],
                      [start |-> rd[2], end |-> dim_m1[2] - rd[2]],
                      [start |-> rd[3], end |-> dim_m1[3] - rd[3]]>>,
         n |-> n,
         coordinates |-> <<0, 0, 0>>,
         at |-> 0]

(* Offsets::range: the slice offsets[at .. at + n]; slicing past the end   *)
(* of the vector panics                                                    *)
offsets_range(off) ==
    IF off.at < 0 \/ off.at + off.n > Len(off.offsets)
    THEN [panic |-> TRUE, r |-> <<>>]
    ELSE [panic |-> FALSE, r |-> SubSeq(off.offsets, off.at + 1, off.at + off.n)]

(* Offsets::move_to, offsets.rs lines 67-94 *)
move_to(off, idx) ==
    LET s == off.mask_strides
        c0 == idx \div s[1]
        r0 == idx - c0 * s[1]
        c1 == r0 \div s[2]
        r1 == r0 - c1 * s[2]
        c2 == r1 \div s[3]
        coords == <<c0, c1, c2>>
        J(d) == LET start == off.bounds[d].start
                    end == off.bounds[d].end
                    c == coords[d]
                IN  IF c < start THEN c
                    ELSE IF c > end /\ end >= start THEN c + start - end
                    ELSE start
    IN  [off EXCEPT !.coordinates = coords,
                    !.at = off.strides[off.axes[1]] * J(off.axes[1])
                           + off.strides[off.axes[2]] * J(off.axes[2])
                           + off.strides[off.axes[3]] * J(off.axes[3])]

(* Offsets::next, offsets.rs lines 96-109 *)
RECURSIVE NextAxis(_, _)
NextAxis(off, k) ==
    IF k > 3 THEN off
    ELSE LET d == off.axes[k]
             c == off.coordinates[d]
         IN  IF c < off.dim_m1[d]
             THEN [off EXCEPT !.at = IF ~(c >= off.bounds[d].start /\ c < off.bounds[d].end)
                                     THEN @ + off.strides[d] ELSE @,
                              !.coordinates[d] = c + 1]
             ELSE NextAxis([off EXCEPT !.coordinates[d] = 0,
                                       !.at = @ - off.backstrides[d]], k + 1)

offsets_next(off) == NextAxis(off, 1)

(* The loop over offsets.range() of erode (want = FALSE) and of dilate     *)
(* (want = TRUE), mod.rs lines 139-157 and 183-196: "hit" when a neighbour *)
(* with the value want is found before the first out-of-image offset       *)
RECURSIVE FirstHit(_, _, _, _, _)
FirstHit(r, j, i, mask, want) ==
    IF j > Len(r) THEN "none"
    ELSE IF r[j] = mask_len THEN "none"
    ELSE IF i + r[j] \notin DOMAIN mask THEN "panic"
    ELSE IF mask[i + r[j]] = want THEN "hit"
    ELSE FirstHit(r, j + 1, i, mask, want)

(* The loop over the voxels in memory order, mod.rs lines 136-161 and      *)
(* 180-200.  s is the state of the loop: out, last_indices, offsets, panic *)
RECURSIVE PassFrom(_, _, _, _)
PassFrom(mask, s, i, want) ==
    IF i >= mask_len \/ s.panic THEN s
    ELSE LET rg == offsets_range(s.off)
             h == IF mask[i] = want THEN "none"
                  ELSE IF rg.panic THEN "panic"
                  ELSE FirstHit(rg.r, 1, i, mask, want)
         IN  PassFrom(mask,
                      [out |-> IF h = "hit" THEN [s.out EXCEPT ![i] = want] ELSE s.out,
                       last |-> IF h = "hit" /\ s.last.some
                                THEN [s.last EXCEPT !.v = Append(@, i)] ELSE s.last,
                       off |-> offsets_next(s.off),
                       panic |-> h = "panic"],
                      i + 1, want)

(* erode, mod.rs lines 126-162 *)
erode(mask, o, off, last) ==
    PassFrom(mask, [out |-> o, last |-> last, off |-> off, panic |-> FALSE], 0, FALSE)

(* dilate, mod.rs lines 168-201 *)
dilate(mask, o, off, last) ==
    PassFrom(mask, [out |-> o, last |-> last, off |-> off, panic |-> FALSE], 0, TRUE)

(* next_it, lines 225-236: the loop over offsets.range() at the index i *)
RECURSIVE NextItOffsets(_, _, _, _, _, _, _)
NextItOffsets(s, r, j, i, save_next_indices, b1, b2) ==
    IF j > Len(r) \/ s.panic THEN s
    ELSE IF r[j] = mask_len THEN s
    ELSE IF i + r[j] \notin DOMAIN s.out THEN [s EXCEPT !.panic = TRUE]
    ELSE NextItOffsets([out |-> [s.out EXCEPT ![i + r[j]] = b2],
                        new_indices |-> IF save_next_indices /\ s.out[i + r[j]] = b1
                                        THEN Append(s.new_indices, i + r[j])
                                        ELSE s.new_indices,
                        panic |-> FALSE],
                       r, j + 1, i, save_next_indices, b1, b2)

(* next_it, lines 223-237: the loop over last_indices *)
RECURSIVE NextItFrom(_, _, _, _, _, _, _)
NextItFrom(s, off, last, m, save_next_indices, b1, b2) ==
    IF m > Len(last) \/ s.panic THEN s
    ELSE LET moved == move_to(off, last[m])
             rg == offsets_range(moved)
         IN  IF rg.panic THEN [s EXCEPT !.panic = TRUE]
             ELSE NextItFrom(NextItOffsets(s, rg.r, 1, last[m], save_next_indices, b1, b2),
                             moved, last, m + 1, save_next_indices, b1, b2)

(* next_it, mod.rs lines 209-239 *)
next_it(o, off, last, save_next_indices, b1, b2) ==
    NextItFrom([out |-> o, new_indices |-> <<>>, panic |-> FALSE], off, last, 1,
               save_next_indices, b1, b2)

InitMorph ==
    /\ data \in MorphMasks
    /\ structure \in MorphKernels
    /\ order \in Orders
    /\ iterations \in 1 .. MaxIterations
    /\ is_dilate \in BOOLEAN
    /\ max_value = U16Max
    /\ line_buffer = <<>>
    /\ neighbors = <<>>
    /\ next_region = 0
    /\ equivalences = <<>>
    /\ labels = <<>>
    /\ nb_features = 0
    /\ pos = 0
    /\ pc = "morph_start"
    /\ hist = NoResult
    /\ most = NoResult
    /\ pass = "first"
    /\ first = NoResult
    /\ largest = NoResult
    /\ kernel_i = 0
    /\ needs_self_labeling = FALSE
    /\ calls = <<>>
    /\ op = NoResult
    /\ out = NoResult
    /\ last_indices = NoResult
    /\ it = 0

(* binary_erosion, mod.rs lines 20-27: the first pass *)
BinaryErosion ==
    /\ pc = "morph_start"
    /\ ~is_dilate
    /\ \E mem \in {as_slice_memory_order(order, data)} :
       \E r \in {erode(mem, mem, Offsets_new(order, structure, FALSE),
                       [some |-> iterations > 1, v |-> <<>>])} :
           /\ out' = r.out
           /\ last_indices' = r.last
           /\ pc' = IF r.panic THEN "morph_panic" ELSE "morph_loop"
    /\ it' = 1
    /\ UNCHANGED <<data, structure, order, max_value, line_buffer, neighbors, next_region,
                   equivalences, labels, nb_features, pos, hist, most, pass, first>>
    /\ UNCHANGED <<largest, op, iterations, is_dilate>>
    /\ UNCHANGED fineVars

(* binary_dilation, mod.rs lines 54-61: the first pass *)
BinaryDilation ==
    /\ pc = "morph_start"
    /\ is_dilate
    /\ \E mem \in {as_slice_memory_order(order, data)} :
       \E r \in {dilate(mem, mem, Offsets_new(order, structure, TRUE),
                        [some |-> iterations > 1, v |-> <<>>])} :
           /\ out' = r.out
           /\ last_indices' = r.last
           /\ pc' = IF r.panic THEN "morph_panic" ELSE "morph_loop"
    /\ it' = 1
    /\ UNCHANGED <<data, structure, order, max_value, line_buffer, neighbors, next_region,
                   equivalences, labels, nb_features, pos, hist, most, pass, first>>
    /\ UNCHANGED <<largest, op, iterations, is_dilate>>
    /\ UNCHANGED fineVars

(* one more turn of the loop `for it in 1..iterations`, mod.rs lines 29-38 *)
(* and 63-72                                                               *)
MorphContinues ==
    /\ last_indices.some
    /\ it < iterations
    /\ last_indices.v # <<>>

NextIt ==
    /\ pc = "morph_loop"
    /\ MorphContinues
    /\ \E r \in {next_it(out, Offsets_new(order, structure, is_dilate), last_indices.v,
                         it < iterations - 1, ~is_dilate, is_dilate)} :
           /\ out' = r.out
           /\ last_indices' = [some |-> TRUE, v |-> r.new_indices]
           /\ pc' = IF r.panic THEN "morph_panic" ELSE "morph_loop"
    /\ it' = it + 1
    /\ UNCHANGED <<data, structure, order, max_value, line_buffer, neighbors, next_region,
                   equivalences, labels, nb_features, pos, hist, most, pass, first>>
    /\ UNCHANGED <<largest, op, iterations, is_dilate>>
    /\ UNCHANGED fineVars

(* the loop ends or breaks and the array is returned, mod.rs lines 39, 73 *)
MorphReturn ==
    /\ pc = "morph_loop"
    /\ ~MorphContinues
    /\ pc' = "morph_done"
    /\ UNCHANGED <<data, structure, order, max_value, line_buffer, neighbors, next_region,
                   equivalences, labels, nb_features, pos, hist, most, pass, first>>
    /\ UNCHANGED <<largest, op, out, last_indices, it, iterations, is_dilate>>
    /\ UNCHANGED fineVars

NextMorph == BinaryErosion \/ BinaryDilation \/ NextIt \/ MorphReturn

SpecMorph == InitMorph /\ [][NextMorph]_vars

----------------------------------------------------------------------------
(* The oracle: connected components by flood fill *)

Adjacent(k, p, q) ==
    /\ p # q
    /\ \A a \in 1 .. 3 : q[a] - p[a] \in {-1, 0, 1}
    /\ k[<<q[1] - p[1] + 1, q[2] - p[2] + 1, q[3] - p[3] + 1>>]

RECURSIVE FloodFill(_, _, _)
FloodFill(k, d, S) ==
    LET N == S \cup {q \in TrueVox(d) : \E p \in S : Adjacent(k, p, q)}
    IN  IF N = S THEN S ELSE FloodFill(k, d, N)

Component(k, d, p) == FloodFill(k, d, {p})

Components(k, d) == {Component(k, d, p) : p \in TrueVox(d)}

(* raster order: axis 0 outermost, then axis 1, then axis 2 *)
Raster(p) == (p[1] * Height + p[2]) * Depth + p[3]

FirstVoxel(S) == CHOOSE p \in S : \A q \in S : Raster(p) <= Raster(q)

CountOf(lab, l) == Cardinality({p \in DOMAIN lab : lab[p] = l})

RECURSIVE SumFrom(_, _)
SumFrom(h, i) == IF i > VecLen(h) - 1 THEN 0 ELSE h[i] + SumFrom(h, i + 1)

----------------------------------------------------------------------------
(* Properties *)

(* C1: the feature count returned by label(V, K) is the number of maximal  *)
(* K-connected sets of true voxels of V found by the flood fill.           *)
C1_FeatureCount ==
    pc = "done" => nb_features = Cardinality(Components(structure, data))

(* C2: two true voxels get the same final label exactly when they lie in   *)
(* the same K-connected component of V.                                    *)
C2_Partition ==
    pc = "done" =>
        \A p, q \in TrueVox(data) :
            (labels[p] = labels[q]) <=> (q \in Component(structure, data, p))

(* C3: the final label of a voxel is 0 exactly when the voxel is false.    *)
C3_ZeroIffFalse ==
    pc = "done" => \A p \in Vox : (labels[p] = 0) <=> ~data[p]

C3_Witness ==
    /\ pc = "done"
    /\ nb_features >= 2
    /\ \E p, q \in Vox : data[p] /\ ~data[q] /\ labels[p] > 0 /\ labels[q] = 0

(* C4: the label volume has the dimensions of the input and its non-zero   *)
(* values are exactly 1 .. feature_count.                                  *)
C4_DenseLabels ==
    pc = "done" =>
        /\ DOMAIN labels = DOMAIN data
        /\ {labels[p] : p \in Vox} \ {0} = 1 .. nb_features

C4_Witness ==
    /\ pc = "done"
    /\ nb_features >= 2
    /\ next_region > nb_features + 2

(* C5: components are numbered in raster order of their first voxel.       *)
C5_ScanOrderNumbering ==
    pc = "done" =>
        \A A, B \in Components(structure, data) :
            Raster(FirstVoxel(A)) < Raster(FirstVoxel(B))
                => labels[FirstVoxel(A)] < labels[FirstVoxel(B)]

(* C6: labelling the same logical volume in the other memory layout gives  *)
(* the same label volume and the same feature count.                       *)
C6_LayoutIndependent ==
    (pc = "done" /\ pass = "layout") =>
        labels = first.labels /\ nb_features = first.nb_features

(* C7: labelling the mask labels > 0 again gives the same feature count    *)
(* and a label volume that is a bijective renumbering of the first one.    *)
C7_RelabelIdempotent ==
    (pc = "done" /\ pass = "relabel") =>
        /\ nb_features = first.nb_features
        /\ \A p, q \in Vox : (labels[p] = labels[q]) <=> (first.labels[p] = first.labels[q])
        /\ \A p \in Vox : (labels[p] = 0) <=> (first.labels[p] = 0)

(* C8: label_histogram has n + 1 entries, entry i counts the voxels with   *)
(* label i, entries 1..n sum to the number of true voxels and entry 0 is   *)
(* the number of false voxels.                                             *)
C8_Histogram ==
    pc = "histogram" =>
        /\ DOMAIN hist = 0 .. nb_features
        /\ \A i \in 0 .. nb_features : hist[i] = CountOf(labels, i)
        /\ SumFrom(hist, 1) = Cardinality(TrueVox(data))
        /\ hist[0] = Cardinality(Vox \ TrueVox(data))

C8_Witness ==
    /\ pc = "histogram"
    /\ nb_features >= 2
    /\ hist[1] >= 2
    /\ hist[0] > 0

(* C9: most_frequent_label is None exactly when V is entirely false;       *)
(* otherwise it is (l, c) with 1 <= l <= n, c the number of voxels         *)
(* labelled l and c maximal among the non-background labels.               *)
C9_MostFrequent ==
    pc = "most_frequent" =>
        /\ (most = <<>>) <=> (TrueVox(data) = {})
        /\ most # <<>> =>
              /\ most[1] \in 1 .. nb_features
              /\ most[2] = CountOf(labels, most[1])
              /\ \A i \in 1 .. nb_features : CountOf(labels, i) <= most[2]

C9_Witness ==
    /\ pc = "most_frequent"
    /\ most # <<>>
    /\ nb_features >= 2
    /\ hist[0] > most[2]
    /\ \E i \in 1 .. nb_features : hist[i] < most[2]

(* C10 as stated: among the labels of maximal count the smallest id is     *)
(* returned.                                                               *)
C10_TieSmallest ==
    (pc = "most_frequent" /\ most # <<>>) =>
        \A i \in 1 .. nb_features : CountOf(labels, i) = most[2] => most[1] <= i

(* C10 amended: among the labels of maximal count the largest id is        *)
(* returned.                                                               *)
C10_TieLargest ==
    (pc = "most_frequent" /\ most # <<>>) =>
        /\ \A i \in 1 .. nb_features : CountOf(labels, i) <= most[2]
        /\ \A i \in 1 .. nb_features : CountOf(labels, i) = most[2] => i <= most[1]

C10_Witness ==
    /\ pc = "most_frequent"
    /\ most # <<>>
    /\ \E i \in 1 .. nb_features : i # most[1] /\ hist[i] = most[2]

(* C11: largest_connected_components returns None exactly when the mask    *)
(* has no true voxel; otherwise the returned mask is a subset of the input *)
(* mask, is one whole K-connected component of it, and no component has    *)
(* more voxels.                                                            *)
C11_LargestComponent ==
    pc = "largest" =>
        /\ largest.some <=> (TrueVox(data) # {})
        /\ largest.some =>
              LET R == TrueVox(largest.mask)
              IN  /\ R \subseteq TrueVox(data)
                  /\ R \in Components(structure, data)
                  /\ \A A \in Components(structure, data) : Cardinality(A) <= Cardinality(R)

(* the shape of an array and its point reflection (all axes reversed) *)
LastIdx(k, a) == CHOOSE m \in {i[a] : i \in DOMAIN k} : \A i \in DOMAIN k : i[a] <= m

PointSymmetric(k) ==
    \A i \in DOMAIN k :
        k[i] = k[<<LastIdx(k, 1) - i[1], LastIdx(k, 2) - i[2], LastIdx(k, 3) - i[3]>>]

(* C12: a structuring element that is not 3x3x3, or that differs from its  *)
(* point reflection, makes label fail in validation before a scratch       *)
(* buffer, the table or the label volume exists and before any line is     *)
(* scanned; a wrong shape is reported even when the element is also not    *)
(* symmetric.                                                              *)
C12_ValidationFirst ==
    /\ (pc # "validate" /\ DOMAIN structure # KIdx) => pc = "panic_shape"
    /\ (pc # "validate" /\ DOMAIN structure = KIdx /\ ~PointSymmetric(structure))
           => pc = "panic_symmetry"
    /\ (pc # "validate" /\ DOMAIN structure = KIdx /\ PointSymmetric(structure))
           => pc \notin {"panic_shape", "panic_symmetry"}
    /\ pc \in {"panic_shape", "panic_symmetry"} =>
           /\ line_buffer = <<>>
           /\ neighbors = <<>>
           /\ equivalences = <<>>
           /\ labels = <<>>
           /\ next_region = 0
           /\ pos = 0

C12_Witness ==
    /\ pc = "panic_shape"
    /\ ~PointSymmetric(structure)
    /\ TrueVox(data) # {}

(* C13: allocation never wraps around.  The table holds one entry per      *)
(* label handed out, entry i at index i, all of them in 2 .. M; a run      *)
(* either completes, or aborts at the allocation of a label that the label *)
(* type cannot represent, and then returns no label volume and no count.   *)
C13_NoWraparound ==
    /\ pc \in {"scan", "remap", "done"} =>
           /\ next_region \in 2 .. max_value
           /\ DOMAIN equivalences = 0 .. next_region - 1
    /\ pc = "scan" => \A i \in 2 .. next_region - 1 : equivalences[i] \in 2 .. i
    /\ pc = "panic_overflow" =>
           /\ next_region > max_value
           /\ nb_features = 0
           /\ pos < Width * Height

(* C14: the allocation fails exactly when the label to hand out,           *)
(* next_region, exceeds the maximum M of the label type: a run that needs  *)
(* no label above M completes.                                             *)
C14_AllocateGuard ==
    (pc = "panic_overflow") <=> (next_region > max_value)

(* C15: with a label type whose maximum is larger than data.len() the run  *)
(* never ends in the overflow panic.                                       *)
C15_RuleOfThumb ==
    max_value > VoxCount => pc # "panic_overflow"

(* the lines the Zip has already visited, and the neighbour lines the scan *)
(* of line idx copies from the label volume (lines 149-155)                *)
VisitedLines == {LineAt(order, m) : m \in 0 .. pos - 1}

CopiedLines(idx) ==
    {is_valid(idx, kernel_data(structure)[i].coordinates, <<Width, Height>>) :
        i \in 1 .. Len(kernel_data(structure))} \ {<<>>}

(* C18: every neighbour line that the scan of the next line copies has     *)
(* been visited, hence labelled and written, strictly earlier.             *)
C18_NeighboursVisited ==
    (pc = "scan" /\ pos < Width * Height) =>
        CopiedLines(LineAt(order, pos)) \subseteq VisitedLines

(* the labels handed out so far, and the class of a label *)
Allocated == 2 .. next_region - 1

RECURSIVE RootOf(_, _)
RootOf(t, i) == IF t[i] = i THEN i ELSE RootOf(t, t[i])

ClassOf(t, i) == {j \in DOMAIN t : RootOf(t, j) = RootOf(t, i)}

(* the nodes of the walk from i to its root, the root included *)
RECURSIVE WalkOf(_, _)
WalkOf(t, i) == IF t[i] = i THEN {i} ELSE {i} \cup WalkOf(t, t[i])

(* C19: after any sequence of allocations and merges the table points      *)
(* downward: entries 0 and 1 are as created, every label i handed out has  *)
(* 2 <= table[i] <= i, and the root of a class is its smallest label.      *)
C19_PointsDownward ==
    pc = "table" =>
        /\ DOMAIN equivalences = 0 .. next_region - 1
        /\ equivalences[0] = 0
        /\ equivalences[1] = 1
        /\ \A i \in Allocated : 2 <= equivalences[i] /\ equivalences[i] <= i
        /\ \A i \in Allocated :
              \A j \in ClassOf(equivalences, i) : RootOf(equivalences, i) <= j
        /\ ClassOf(equivalences, 0) = {0}
        /\ ClassOf(equivalences, 1) = {1}

C19_Witness ==
    /\ pc = "table"
    /\ op # <<>>
    /\ \E i \in Allocated :
           /\ equivalences[i] # i
           /\ equivalences[equivalences[i]] # equivalences[i]
    /\ \E i \in Allocated : i > 2 /\ equivalences[i] = i

(* C20: a merge returns the smaller of the two roots, and afterwards every *)
(* node of the two walks of the table it received, from a and from b to    *)
(* their roots, points directly at the returned label.                     *)
C20_UnionFlattens ==
    (pc = "table" /\ op # <<>>) =>
        (op.kind = "union" =>
            LET ra == RootOf(op.table, op.a)
                rb == RootOf(op.table, op.b)
                lowest == IF ra < rb THEN ra ELSE rb
            IN  /\ op.ret = lowest
                /\ \A n \in WalkOf(op.table, op.a) \cup WalkOf(op.table, op.b) :
                       equivalences[n] = lowest
                /\ RootOf(equivalences, op.a) = lowest
                /\ RootOf(equivalences, op.b) = lowest
                /\ \A n \in DOMAIN equivalences :
                       n \notin WalkOf(op.table, op.a) \cup WalkOf(op.table, op.b)
                           => equivalences[n] = op.table[n])

C20_Witness ==
    /\ pc = "table"
    /\ op # <<>>
    /\ op.kind = "union"
    /\ Cardinality(WalkOf(op.table, op.a)) >= 3
    /\ Cardinality(WalkOf(op.table, op.b)) >= 2
    /\ RootOf(op.table, op.a) # RootOf(op.table, op.b)

(* Erosion and dilation of a mask by a kernel, one step: p stays true when *)
(* every kernel neighbour p + c is true or outside the image; p becomes    *)
(* true when some neighbour p - c inside the image is true.                *)
KernelOffsets(k) ==
    {<<i[1] - radii(k)[1], i[2] - radii(k)[2], i[3] - radii(k)[3]>> :
        i \in {j \in DOMAIN k : k[j]}}

ErosionStep(k, d) ==
    [p \in MVox |->
        \A c \in KernelOffsets(k) :
            LET q == <<p[1] + c[1], p[2] + c[2], p[3] + c[3]>>
            IN  q \notin MVox \/ d[q]]

DilationStep(k, d) ==
    [p \in MVox |->
        \E c \in KernelOffsets(k) :
            LET q == <<p[1] - c[1], p[2] - c[2], p[3] - c[3]>>
            IN  q \in MVox /\ d[q]]

RECURSIVE ErosionTimes(_, _, _)
ErosionTimes(k, d, n) == IF n = 0 THEN d ELSE ErosionTimes(k, ErosionStep(k, d), n - 1)

RECURSIVE DilationTimes(_, _, _)
DilationTimes(k, d, n) == IF n = 0 THEN d ELSE DilationTimes(k, DilationStep(k, d), n - 1)

(* C16: binary_erosion(mask, kernel, n) returns the mask eroded n times in *)
(* succession, out-of-image neighbours counting as true.                   *)
C16_ErosionIterates ==
    ~is_dilate =>
        /\ pc # "morph_panic"
        /\ pc = "morph_done" =>
               FromMemory(order, out) = ErosionTimes(structure, data, iterations)

(* C17: binary_dilation(mask, kernel, n) returns the mask dilated n times  *)
(* in succession, out-of-image neighbours counting as false.               *)
C17_DilationIterates ==
    is_dilate =>
        /\ pc # "morph_panic"
        /\ pc = "morph_done" =>
               FromMemory(order, out) = DilationTimes(structure, data, iterations)

(* C21: a merge of a and b changes the classes only by uniting the class of *)
(* a with the class of b: entries off the two walks are as they were, the  *)
(* root of every label outside the two classes is as it was, and two       *)
(* labels of one class before the merge are in one class after it.         *)
C21_UnionFrame ==
    (pc = "table" /\ op # <<>>) =>
        (op.kind = "union" =>
            LET walks == WalkOf(op.table, op.a) \cup WalkOf(op.table, op.b)
                merged == ClassOf(op.table, op.a) \cup ClassOf(op.table, op.b)
            IN  /\ DOMAIN equivalences = DOMAIN op.table
                /\ \A n \in DOMAIN op.table \ walks : equivalences[n] = op.table[n]
                /\ \A c \in DOMAIN op.table \ merged :
                       RootOf(equivalences, c) = RootOf(op.table, c)
                /\ \A c, d \in DOMAIN op.table :
                       RootOf(op.table, c) = RootOf(op.table, d)
                           => RootOf(equivalences, c) = RootOf(equivalences, d)
                /\ ClassOf(equivalences, op.a) = merged)

C21_Witness ==
    /\ pc = "table"
    /\ op # <<>>
    /\ op.kind = "union"
    /\ RootOf(op.table, op.a) # RootOf(op.table, op.b)
    /\ Cardinality(ClassOf(op.table, op.a)) >= 2
    /\ \E c \in Allocated :
           /\ c \notin ClassOf(equivalences, op.a)
           /\ op.table[c] # c

(* C22: take_label_or_merge returns the cell's label and leaves the table  *)
(* as it was when the neighbour is background or equal to it; returns the  *)
(* neighbour itself, table untouched, when the cell is foreground; and     *)
(* otherwise returns what mark_for_merge(neighbour, cell) returns, with    *)
(* the table that call leaves.                                             *)
C22_MergeCases ==
    (pc = "table" /\ op # <<>>) =>
        (op.kind = "merge" =>
            /\ (op.b = background \/ op.a = op.b) =>
                   (op.ret = op.a /\ equivalences = op.table)
            /\ (op.a = foreground /\ op.b # background) =>
                   (op.ret = op.b /\ equivalences = op.table)
            /\ (op.b # background /\ op.a # foreground /\ op.a # op.b) =>
                   /\ [label |-> op.ret, eq |-> equivalences]
                          = mark_for_merge(op.b, op.a, op.table)
                   /\ op.ret = RootOf(equivalences, op.a)
                   /\ op.ret = RootOf(equivalences, op.b))

C22_Witness ==
    /\ pc = "table"
    /\ op # <<>>
    /\ op.kind = "merge"
    /\ op.a = foreground
    /\ op.b # background
    /\ op.table[op.b] # op.b
    /\ op.ret = op.b

(* the labels of 2 .. next - 1 that are their own root in table t, and the *)
(* rank of a root among them, counted from 1                              *)
RootsOf(t, next) == {l \in 2 .. next - 1 : t[l] = l}

DenseId(t, r) == Cardinality({l \in 2 .. r : t[l] = l})

(* C23: after compact_equivalences the entry of every label handed out is  *)
(* the dense id of the root it had before: the roots are numbered 1, 2, .. *)
(* in increasing order, and a label that was not a root holds what the     *)
(* entry it pointed at holds, one step of indirection.                     *)
C23_CompactDense ==
    pc = "compacted" =>
        /\ \A l \in 2 .. next_region - 1 :
               equivalences[l] = DenseId(op.table, RootOf(op.table, l))
        /\ \A l \in 2 .. next_region - 1 :
               op.table[l] # l => equivalences[l] = equivalences[op.table[l]]
        /\ \A r, q \in RootsOf(op.table, next_region) :
               r < q => equivalences[r] < equivalences[q]

C23_Witness ==
    /\ pc = "compacted"
    /\ \E l \in 2 .. next_region - 1 :
           /\ op.table[l] # l
           /\ op.table[op.table[l]] # op.table[l]
    /\ \E r \in RootsOf(op.table, next_region) : equivalences[r] >= 2 /\ equivalences[r] < r - 1

(* C24: compact_equivalences returns the number of labels that were their  *)
(* own root, which is the largest entry of the compacted table; with no    *)
(* label handed out it returns 0 and leaves the table as it was.           *)
C24_CompactCount ==
    pc = "compacted" =>
        /\ nb_features = Cardinality(RootsOf(op.table, next_region))
        /\ op.ret = nb_features
        /\ next_region = 2 => (nb_features = 0 /\ equivalences = op.table)
        /\ next_region > 2 => VecMax(equivalences) = Cardinality(RootsOf(op.table, next_region))

C24_Witness ==
    /\ pc = "compacted"
    /\ nb_features >= 2
    /\ nb_features < next_region - 2

(* the states in which the label volume holds raw labels *)
RawVolume == pc \in {"scan", "neighbors", "write", "remap", "panic_overflow"}

(* the last entry of kernel_data names a line inside the volume *)
LastEntryInBounds(idx) ==
    /\ Len(kernel_data(structure)) > 0
    /\ is_valid(idx, kernel_data(structure)[Len(kernel_data(structure))].coordinates,
                <<Width, Height>>) # <<>>

(* C25: when a line is about to be written, label_line_with_neighbor has   *)
(* been called with label_unlabeled = true exactly once, in the last call  *)
(* made for the line; that call is the one of the last entry of the list   *)
(* when its line is in bounds, and the call with [false, false, false]     *)
(* otherwise.  The line written, the raw label volume and the neighbour    *)
(* buffer hold background or labels handed out, never foreground; the      *)
(* previous values the labelling sweep reads are cells of that line.       *)
C25_SelfLabelOnce ==
    /\ pc = "write" =>
           /\ Len(calls) >= 1
           /\ \A i \in 1 .. Len(calls) : calls[i].label_unlabeled <=> (i = Len(calls))
           /\ (calls[Len(calls)].kernel = <<FALSE, FALSE, FALSE>>)
                  <=> ~LastEntryInBounds(LineAt(order, pos))
           /\ \A j \in DOMAIN line_buffer :
                  line_buffer[j] = background \/ line_buffer[j] \in 2 .. next_region - 1
    /\ pc = "neighbors" =>
           \A i \in 1 .. Len(calls) :
               calls[i].label_unlabeled =>
                   (i = Len(calls) /\ kernel_i > Len(kernel_data(structure)))
    /\ RawVolume =>
           /\ \A p \in Vox : labels[p] = background \/ labels[p] \in 2 .. next_region - 1
           /\ \A j \in DOMAIN neighbors : neighbors[j] # foreground

C25_Witness ==
    /\ pc = "write"
    /\ order = "C"
    /\ Len(calls) >= 2
    /\ calls[Len(calls)].kernel = <<FALSE, FALSE, FALSE>>
    /\ \E j \in DOMAIN line_buffer : line_buffer[j] = next_region - 1 /\ line_buffer[j] >= 3
    /\ \E j \in DOMAIN line_buffer : line_buffer[j] = 2

(* the states in which the two scratch buffers exist *)
BuffersExist == pc \in {"scan", "neighbors", "write", "remap", "done", "panic_overflow"}

(* the loop over kernel_data is over and the call of lines 176-184 is next *)
FallbackNext ==
    /\ pc = "neighbors"
    /\ kernel_i > Len(kernel_data(structure))
    /\ needs_self_labeling

(* C27: the margin cells of line_buffer and of neighbors are background in *)
(* every state of a run, and the call of lines 176-184, handed the         *)
(* neighbors buffer as the last copy left it, gives what the same call     *)
(* gives with a neighbors buffer that is background throughout.            *)
C27_BuffersDoNotLeak ==
    /\ BuffersExist =>
           /\ DOMAIN line_buffer = 0 .. len + 1
           /\ DOMAIN neighbors = 0 .. len + 1
           /\ line_buffer[0] = background
           /\ line_buffer[len + 1] = background
           /\ neighbors[0] = background
           /\ neighbors[len + 1] = background
    /\ FallbackNext =>
           label_line_with_neighbor(line_buffer, neighbors, equivalences,
                                    <<FALSE, FALSE, FALSE>>, use_previous(structure), TRUE,
                                    next_region, max_value)
             = label_line_with_neighbor(line_buffer, [j \in 0 .. len + 1 |-> background],
                                        equivalences, <<FALSE, FALSE, FALSE>>,
                                        use_previous(structure), TRUE, next_region, max_value)

C27_Witness ==
    /\ FallbackNext
    /\ \E j \in 1 .. len : neighbors[j] >= 2
    /\ \E j \in 1 .. len : line_buffer[j] = foreground
    /\ \E j \in 1 .. len : line_buffer[j] >= 2
    /\ pos >= 2

(* C30: while a run of label goes on, the table has next_region entries,  *)
(* 0 .. next_region - 1, and every label in line_buffer, in neighbors and  *)
(* in the raw label volume is below next_region; the entries of the table  *)
(* are below next_region too, so every lookup equivalences[l] made by      *)
(* mark_for_merge, compact_equivalences and the remap is within bounds.    *)
C30_LookupsInBounds ==
    pc \in {"scan", "neighbors", "write", "remap"} =>
        /\ DOMAIN equivalences = 0 .. next_region - 1
        /\ \A j \in DOMAIN line_buffer : line_buffer[j] \in 0 .. next_region - 1
        /\ \A j \in DOMAIN neighbors : neighbors[j] \in 0 .. next_region - 1
        /\ \A p \in Vox : labels[p] \in 0 .. next_region - 1
        /\ \A l \in DOMAIN equivalences : equivalences[l] \in 0 .. next_region - 1

C30_Witness ==
    /\ pc = "remap"
    /\ next_region >= 5
    /\ \E p \in Vox : labels[p] = next_region - 1
    /\ \E l \in DOMAIN equivalences : l >= 3 /\ equivalences[l] < l - 1

(* C26: labelling a volume with the fused scan and with the scan in two    *)
(* separate passes per line gives the same final label volume and the same *)
(* feature count.                                                          *)
C26_FusedEqualsTwoPass ==
    (pc = "done" /\ pass = "twopass") =>
        /\ labels = first.labels
        /\ nb_features = first.nb_features

C26_Witness ==
    /\ pc = "done"
    /\ pass = "twopass"
    /\ nb_features >= 2
    /\ next_region - 2 > nb_features
    /\ structure = BallKernel

(* the offsets (axis 0, axis 1, axis 2) at which the scan looks for a     *)
(* neighbour: the true cells of the lanes kept in kernel_data, and the     *)
(* previous cell of the line when use_previous is set                      *)
ScannedOffsets(k) ==
    UNION {{<<kernel_data(k)[i].coordinates[1] - 1, kernel_data(k)[i].coordinates[2] - 1, w - 2>> :
               w \in {v \in 1 .. 3 : kernel_data(k)[i].kernel[v]}} :
           i \in 1 .. Len(kernel_data(k))}

PreviousOffset(k) == IF use_previous(k) THEN {<<0, 0, -1>>} ELSE {}

(* the true entries of k among the 13 entries before its centre *)
BackwardNeighbours(k) ==
    {<<i[1] - 1, i[2] - 1, i[3] - 1>> :
        i \in {j \in KIdx : k[j] /\ 9 * j[1] + 3 * j[2] + j[3] < 13}}

(* the true voxels of the lines the scan has visited *)
VisitedTrue == {p \in TrueVox(data) : <<p[1], p[2]>> \in VisitedLines}

(* C28: the lanes kept in kernel_data, in the order of the lanes and with  *)
(* no all-false lane, together with use_previous are exactly the true      *)
(* entries among the 13 backward neighbours of the kernel; and between two *)
(* lines of the scan any two visited voxels that are K-adjacent have been  *)
(* merged, and any two that have been merged lie in one K-component.       *)
C28_BackwardNeighbours ==
    /\ pc \in {"scan", "remap", "done"} =>
           /\ ScannedOffsets(structure) \cup PreviousOffset(structure)
                  = BackwardNeighbours(structure)
           /\ \A i \in 1 .. Len(kernel_data(structure)) :
                  /\ \E w \in 1 .. 3 : kernel_data(structure)[i].kernel[w]
                  /\ i > 1 =>
                         3 * kernel_data(structure)[i - 1].coordinates[1]
                           + kernel_data(structure)[i - 1].coordinates[2]
                         < 3 * kernel_data(structure)[i].coordinates[1]
                           + kernel_data(structure)[i].coordinates[2]
    /\ pc = "scan" =>
           \A p, q \in VisitedTrue :
               /\ Adjacent(structure, p, q) =>
                      RootOf(equivalences, labels[p]) = RootOf(equivalences, labels[q])
               /\ RootOf(equivalences, labels[p]) = RootOf(equivalences, labels[q]) =>
                      q \in Component(structure, data, p)

(* the call is over: it returned, or it panicked on the overflow assertion *)
CallOver == pc \in {"done", "panic_overflow"}

(* C29: every call of label that passed validation ends, with a result or  *)
(* with the overflow panic and in no other way: while it runs the table    *)
(* has no cycle but the self-loops of roots (every entry is at most its    *)
(* index, so every walk ends), each step of the Zip visits one more line,  *)
(* and the call is eventually over.                                        *)
C29_Terminates ==
    /\ [](pc \in {"validate", "scan", "remap", "done", "panic_overflow"})
    /\ [](pc \in {"scan", "panic_overflow"} =>
              \A l \in DOMAIN equivalences : equivalences[l] <= l)
    /\ [][pos' = pos \/ (pos' = pos + 1 /\ pos < Width * Height)]_vars
    /\ <>CallOver
    /\ [](CallOver => []CallOver)

C29_Witness ==
    /\ pc = "done"
    /\ pos = Width * Height
    /\ next_region >= 5
    /\ nb_features >= 1
    /\ nb_features < next_region - 2

====
